---------------------------- MODULE Spec2Model ----------------------------
(***************************************************************************)
(* A model of paw (src/paw/paw.py): the breadth-first crawler Paw.crawl,   *)
(* the single page fetch Paw.scrape, the extraction entry point            *)
(* Paw.extract, and the pure helpers _same_domain, _extract_links and      *)
(* _clean_markdown.                                                        *)
(*                                                                         *)
(* Python strings are modelled as sequences of one-character strings, so   *)
(* that str.replace, str.strip and re.sub are computed, not assumed.       *)
(***************************************************************************)
EXTENDS Naturals, Sequences, FiniteSets, TLC

VARIABLES
    site,          \* the web: URL -> what a request for it returns (fixed)
    calls,         \* number of API calls made on this Paw instance so far
    api,           \* the public method running: "none", "crawl", "scrape", "extract"
    pc,            \* position inside the running method
    base_url,      \* argument base_url (crawl, extract) or url (scrape)
    max_depth,     \* argument max_depth
    format_type,   \* argument format_type
    queue,         \* crawl local: deque of <<url, depth>>
    visited,       \* crawl local: set of URLs
    content_dict,  \* crawl local: insertion-ordered dict, a sequence of <<url, markdown>>
    cur,           \* crawl locals url, depth of the entry being processed
    soup,          \* crawl local: the anchors of the parsed page
    result,        \* value returned to the caller
    raised,        \* exception that reached the caller ("none" when none)
    trace,         \* side effects in order: <<"get", url>>, <<"sleep">>, <<"llm">>
    qhops,         \* history: number of links followed to reach each queue entry
    hops,          \* history: URL -> number of links followed when it was processed
    failed,        \* history: URLs whose processing raised inside the crawl loop
    skipped,       \* history: URLs whose response was not HTML
    prev,          \* history: what the call before a repeated call did
    markdown,      \* _clean_markdown: its argument
    cleaned,       \* _clean_markdown: its results, applied once and twice
    link_in,       \* _extract_links: its arguments [base, anchors]
    links          \* _extract_links: its result

crawlVars == <<api, pc, base_url, max_depth, format_type, queue, visited,
               content_dict, cur, soup, result, raised, trace, qhops, hops,
               failed, skipped, calls, prev>>
cleanVars == <<markdown, cleaned>>
linkVars  == <<link_in, links>>
vars == <<site, crawlVars, cleanVars, linkVars>>

-----------------------------------------------------------------------------
(* Bounds *)

\* Largest max_depth argument tried.
MaxDepthArg == 3
\* API calls made on one Paw instance.
MaxCalls == 2
\* Longest markdown text given to _clean_markdown.
MaxTextLen == 6
\* Longest host name given to _same_domain.
MaxHostLen == 5

-----------------------------------------------------------------------------
(* Strings as sequences of characters *)

NL == "\n"
SP == " "

\* Python's str.strip() whitespace, within the alphabet used here.
IsSpace(c) == c \in {SP, NL}

SeqsUpTo(S, n) == UNION {[1..k -> S] : k \in 0..n}

\* s[i..] starts with p
StartsWithAt(s, p, i) ==
    /\ i + Len(p) - 1 <= Len(s)
    /\ \A k \in 1..Len(p) : s[i + k - 1] = p[k]

\* Length of the run of characters satisfying "is c" that starts at s[i].
RECURSIVE RunLen(_, _, _)
RunLen(s, c, i) ==
    IF i <= Len(s) /\ s[i] = c THEN 1 + RunLen(s, c, i + 1) ELSE 0

\* s with its leading (resp. trailing) whitespace removed
RECURSIVE LStrip(_)
LStrip(s) == IF s # <<>> /\ IsSpace(Head(s)) THEN LStrip(Tail(s)) ELSE s

RECURSIVE RStrip(_)
RStrip(s) ==
    IF s # <<>> /\ IsSpace(s[Len(s)]) THEN RStrip(SubSeq(s, 1, Len(s) - 1)) ELSE s

\* str.strip()
Strip(s) == RStrip(LStrip(s))

\* str.replace(p, ""), from position i: every non-overlapping occurrence of
\* p, scanning left to right, is dropped.
RECURSIVE RemoveAll(_, _, _)
RemoveAll(s, p, i) ==
    IF i > Len(s) THEN <<>>
    ELSE IF StartsWithAt(s, p, i) THEN RemoveAll(s, p, i + Len(p))
    ELSE <<s[i]>> \o RemoveAll(s, p, i + 1)

-----------------------------------------------------------------------------
(* _clean_markdown *)

\* re.sub(r"\n{3,}", "\n\n", s), from position i: a maximal run of three or
\* more newlines becomes two newlines.
RECURSIVE SubNewlines(_, _)
SubNewlines(s, i) ==
    IF i > Len(s) THEN <<>>
    ELSE LET r == RunLen(s, NL, i)
         IN  IF r >= 3 THEN <<NL, NL>> \o SubNewlines(s, i + r)
             ELSE <<s[i]>> \o SubNewlines(s, i + 1)

\* re.sub(r" +\n", "\n", s), from position i: a run of spaces that is
\* followed by a newline is dropped, the newline kept.
RECURSIVE SubTrailingSpaces(_, _)
SubTrailingSpaces(s, i) ==
    IF i > Len(s) THEN <<>>
    ELSE LET r == RunLen(s, SP, i)
         IN  IF r >= 1 /\ i + r <= Len(s) /\ s[i + r] = NL
             THEN <<NL>> \o SubTrailingSpaces(s, i + r + 1)
             ELSE <<s[i]>> \o SubTrailingSpaces(s, i + 1)

CleanMarkdown(md) == Strip(SubTrailingSpaces(SubNewlines(md, 1), 1))

-----------------------------------------------------------------------------
(* URLs, anchors, _same_domain and _extract_links *)

\* A URL string is scheme "://" host path; a string with no "://" has scheme
\* "" and an empty host.  A host is a sequence of characters.
Url(scheme, host, path) == [scheme |-> scheme, host |-> host, path |-> path]

\* A validation that only asks for some scheme.
ValidUrlAnyScheme(url) == url.scheme # ""

\* url.startswith(("http://", "https://"))
ValidUrl(url) == url.scheme \in {"http", "https"}

\* urlparse(url).netloc
Netloc(url) == url.host

WWW == <<"w", "w", "w", ".">>

\* An href attribute: an absolute URL, or (scheme "", host <<>>) a relative
\* reference made of a path, a query (?...) and a fragment (#...).
Href(scheme, host, path, query, frag) ==
    [scheme |-> scheme, host |-> host, path |-> path, query |-> query, frag |-> frag]

AbsHref(url) == Href(url.scheme, url.host, url.path, FALSE, FALSE)
RelHref(path) == Href("", <<>>, path, FALSE, FALSE)
EmptyHref == Href("", <<>>, "", FALSE, FALSE)
FragHref == Href("", <<>>, "", FALSE, TRUE)

\* not href
HrefIsEmpty(h) ==
    h.scheme = "" /\ h.host = <<>> /\ h.path = "" /\ ~h.query /\ ~h.frag

\* href.startswith("#")
HrefIsFragment(h) ==
    h.scheme = "" /\ h.host = <<>> /\ h.path = "" /\ ~h.query /\ h.frag

\* urljoin(base_url, href).split("#")[0].split("?")[0]
\* (relative paths are absolute-path references, as "/about")
JoinAndStrip(base, h) ==
    IF h.scheme # "" THEN Url(h.scheme, h.host, h.path)
    ELSE IF h.host # <<>> THEN Url(base.scheme, h.host, h.path)
    ELSE Url(base.scheme, base.host, IF h.path = "" THEN base.path ELSE h.path)

\* A domain check that accepts every host.
SameDomainAny(url, base) == TRUE

\* Paw._same_domain
SameDomain(url, base) ==
    RemoveAll(Netloc(url), WWW, 1) = RemoveAll(Netloc(base), WWW, 1)

\* anchors: the href values of soup.find_all("a", href=True), in document order
RECURSIVE ExtractLinks(_, _)
ExtractLinks(anchors, base) ==
    IF anchors = <<>> THEN <<>>
    ELSE LET h == Head(anchors)
             rest == ExtractLinks(Tail(anchors), base)
             absolute_url == JoinAndStrip(base, h)
         IN  IF HrefIsEmpty(h) \/ HrefIsFragment(h) THEN rest
             ELSE IF SameDomain(absolute_url, base) THEN <<absolute_url>> \o rest
             ELSE rest

-----------------------------------------------------------------------------
(* The web the crawler runs against *)

HostS   == <<"s", ".", "t">>                 \* s.t
HostWS  == WWW \o HostS                      \* www.s.t
HostE   == <<"e", ".", "t">>                 \* e.t
HostSWT == <<"s", ".">> \o WWW \o <<"t">>    \* s.www.t

Root  == Url("https", HostS, "/")
About == Url("https", HostS, "/about")
Deep  == Url("https", HostS, "/deep")
WRoot == Url("https", HostWS, "/")
Far   == Url("https", HostWS, "/far")
Ext   == Url("https", HostE, "/")
Swt   == Url("https", HostSWT, "/")
NoScheme == Url("", <<>>, "s.t/")
FtpRoot  == Url("ftp", HostS, "/")

HTML == "text/html"
PDF  == "application/pdf"

\* What a request for a URL returns: the Content-Type header, the hrefs of
\* the body's anchors in document order, and the markdown html2text renders
\* from the body.
Page(content_type, anchors, text) ==
    [content_type |-> content_type, anchors |-> anchors, text |-> text]

TextA == <<"a">>
TextB == <<NL, "b", SP, NL, NL, NL, "c", SP>>

\* / links to /about and to another domain
SiteAbout ==
    (Root :> Page(HTML, <<RelHref("/about"), AbsHref(Ext)>>, TextA)) @@
    (About :> Page(HTML, <<>>, TextB)) @@
    (Ext :> Page(HTML, <<AbsHref(Root)>>, TextA))

\* two pages that link to each other
SiteCycle ==
    (Root :> Page(HTML, <<AbsHref(About)>>, TextA)) @@
    (About :> Page(HTML, <<Href("https", HostS, "/", FALSE, TRUE)>>, TextB))

\* pages reached along several paths, three links deep
SiteDiamond ==
    (Root :> Page(HTML, <<AbsHref(About), AbsHref(WRoot)>>, TextA)) @@
    (About :> Page(HTML, <<RelHref("/"), AbsHref(WRoot), RelHref("/deep")>>, TextA)) @@
    (WRoot :> Page(HTML, <<Href("https", HostS, "/deep", TRUE, FALSE), AbsHref(Root)>>, <<>>)) @@
    (Deep :> Page(HTML, <<AbsHref(Far), AbsHref(Ext)>>, TextB)) @@
    (Far :> Page(HTML, <<AbsHref(Root)>>, TextA))

\* the base URL is not an HTML document
SitePdf ==
    (Root :> Page(PDF, <<>>, <<>>)) @@
    (WRoot :> Page(HTML, <<FragHref, EmptyHref, AbsHref(Root)>>, <<SP, NL>>))

\* an HTML page links to a document and to a missing page
SiteMixed ==
    (Root :> Page(HTML, <<RelHref("/about"), FragHref, RelHref("/deep"), AbsHref(FtpRoot)>>, TextB)) @@
    (About :> Page(PDF, <<>>, <<>>)) @@
    (WRoot :> Page(HTML, <<AbsHref(About), AbsHref(Root)>>, TextA))

\* a link to a host that holds "www." in the middle
SiteSwt ==
    (Root :> Page(HTML, <<AbsHref(Swt), AbsHref(WRoot)>>, TextA)) @@
    (WRoot :> Page(HTML, <<AbsHref(Swt)>>, TextA)) @@
    (Swt :> Page(HTML, <<AbsHref(Ext)>>, TextB)) @@
    (Ext :> Page(HTML, <<>>, TextA))

Sites == {SiteAbout, SiteCycle, SiteDiamond, SitePdf, SiteMixed, SiteSwt}

\* _clean_markdown and _extract_links on the pages of Sites, tabulated
PageTexts == UNION {{s[u].text : u \in DOMAIN s} : s \in Sites}
CleanedText == [t \in PageTexts |-> CleanMarkdown(t)]

PageAnchors == UNION {{<<s[u].anchors, u>> : u \in DOMAIN s} : s \in Sites}
PageLinks == [p \in PageAnchors |-> ExtractLinks(p[1], p[2])]

BaseUrls == {Root, WRoot, NoScheme, FtpRoot}
Formats == {"markdown", "json"}

-----------------------------------------------------------------------------
(* Paw.crawl, Paw.scrape, Paw.extract *)

NoEntry == [url |-> NoScheme, depth |-> 0]

\* A request with requests.get and raise_for_status: "error" (a
\* RequestException: transport failure, timeout, HTTP error status, a scheme
\* requests does not speak) or the page served.  Any request may fail.
Responses(url) ==
    {"error"} \cup
    (IF ValidUrl(url) /\ url \in DOMAIN site THEN {site[url].content_type} ELSE {})

\* A content type check that lets every document through.
IsHtmlAny(content_type) == TRUE

\* "text/html" in content_type
IsHtml(content_type) == content_type = HTML

\* A dequeue check that looks at the depth only.
SkipDepthOnly(url, depth) == depth > max_depth

\* url in visited or depth > max_depth
Skip(url, depth) == url \in visited \/ depth > max_depth

\* A visited set that is never added to.
VisitedAddNothing(v, url) == v

\* visited.add(url)
VisitedAdd(v, url) == v \cup {url}

\* New entries put at the head of the queue.
AppendAllLeft(q, es) == es \o q

\* queue.append(...) for each new entry
AppendAll(q, es) == q \o es

\* Reading queue[0] without removing it.
PopLeftPeek(q) == q

\* queue.popleft(): what is left of the queue
PopLeft(q) == Tail(q)

\* Links appended at the depth of their page.
ChildDepthSame(depth) == depth

\* depth + 1
ChildDepth(depth) == depth + 1

\* Links followed from a page at max_depth too.
FollowLinksInclusive(depth) == depth <= max_depth

\* Links not followed from a page one level above max_depth.
FollowLinksEarlyStop(depth) == depth + 1 < max_depth

\* depth < max_depth
FollowLinks(depth) == depth < max_depth

\* No check against visited when a link is appended.
EnqueueableAlways(link) == TRUE

\* link not in visited
Enqueueable(link) == link \notin visited

\* the keys of content_dict
Keys(d) == {d[i][1] : i \in 1..Len(d)}

\* the URL as the string it is
UrlStr(u) == (IF u.scheme = "" THEN <<>> ELSE <<u.scheme, "://">>) \o u.host \o <<u.path>>

Separator == <<NL, NL, "---", NL, NL>>

\* Sections joined without their "URL: ..." heading.
RECURSIVE JoinMarkdownNoUrl(_)
JoinMarkdownNoUrl(d) ==
    IF d = <<>> THEN <<>>
    ELSE IF Len(d) = 1 THEN d[1][2]
    ELSE d[1][2] \o Separator \o JoinMarkdownNoUrl(Tail(d))

\* "\n\n---\n\n".join(f"URL: {url}\n\n{content}" for url, content in d.items())
RECURSIVE JoinMarkdown(_)
JoinMarkdown(d) ==
    IF d = <<>> THEN <<>>
    ELSE LET block == <<"URL: ">> \o UrlStr(d[1][1]) \o <<NL, NL>> \o d[1][2]
         IN  IF Len(d) = 1 THEN block
             ELSE block \o Separator \o JoinMarkdown(Tail(d))

\* d[k] = v on an insertion-ordered dict
DictSet(d, k, v) ==
    IF k \in Keys(d)
    THEN [i \in 1..Len(d) |-> IF d[i][1] = k THEN <<k, v>> ELSE d[i]]
    ELSE Append(d, <<k, v>>)

\* A handler that lets the exception leave crawl.
Propagated(url) ==
    /\ failed' = failed \cup {url}
    /\ raised' = "Exception"
    /\ pc' = "raised"

\* except Exception: spinner.fail(...); the loop goes on with the next entry
Caught(url) ==
    /\ failed' = failed \cup {url}
    /\ raised' = "none"
    /\ pc' = "loop"

\* No emptiness check.
NeverEmpty(md) == FALSE

\* content_markdown.strip() == ""
IsEmptyContent(md) == Strip(md) = <<>>

Returned == {"idle", "done", "raised"}

\* the side effects recorded in trace
Get(url)   == [op |-> "get", url |-> url]
Sleep      == [op |-> "sleep", url |-> NoScheme]
Completion == [op |-> "llm", url |-> NoScheme]

\* Paw.scrape(url): the ways it can end.  exc is the exception raised
\* ("none": it returns value), requested whether requests.get was called.
Outcome(exc, requested, value) ==
    [exc |-> exc, requested |-> requested, value |-> value]

Scrape(url) ==
    IF ~ValidUrl(url) THEN {Outcome("ValueError", FALSE, <<>>)}
    ELSE UNION {
        IF r = "error" THEN {Outcome("ConnectionError", TRUE, <<>>)}
        ELSE IF ~IsHtml(r) THEN {Outcome("ValueError", TRUE, <<>>)}
        ELSE {Outcome("none", TRUE, CleanedText[site[url].text]),
              Outcome("ValueError", TRUE, <<>>)}     \* the conversion raised
        : r \in Responses(url)}

\* the links of a page that crawl appends to the queue
RECURSIVE NewLinks(_)
NewLinks(ls) ==
    IF ls = <<>> THEN <<>>
    ELSE IF Enqueueable(Head(ls)) THEN <<Head(ls)>> \o NewLinks(Tail(ls))
    ELSE NewLinks(Tail(ls))

\* The start of crawl(base_url, max_depth, format_type): the validation of
\* base_url, then queue, visited and content_dict are created.
EnterCrawl(b) ==
    IF ~ValidUrl(b)
    THEN /\ pc' = "raised"
         /\ raised' = "ValueError"
         /\ queue' = <<>>
         /\ qhops' = <<>>
    ELSE /\ pc' = "loop"
         /\ raised' = "none"
         /\ queue' = <<<<b, 0>>>>
         /\ qhops' = <<0>>

\* A call that goes on with the visited set of the call before it.
FreshCallKeepVisited ==
    /\ pc \in Returned
    /\ calls < MaxCalls
    /\ calls' = calls + 1
    /\ visited' = visited
    /\ content_dict' = <<>>
    /\ cur' = NoEntry
    /\ soup' = <<>>
    /\ result' = <<>>
    /\ trace' = <<>>
    /\ hops' = <<>>
    /\ failed' = {}
    /\ skipped' = {}
    /\ UNCHANGED <<site, cleanVars, linkVars>>

\* A call starts: the locals of crawl do not exist yet, nothing returned.
FreshCall ==
    /\ pc \in Returned
    /\ calls < MaxCalls
    /\ calls' = calls + 1
    /\ visited' = {}
    /\ content_dict' = <<>>
    /\ cur' = NoEntry
    /\ soup' = <<>>
    /\ result' = <<>>
    /\ trace' = <<>>
    /\ hops' = <<>>
    /\ failed' = {}
    /\ skipped' = {}
    /\ UNCHANGED <<site, cleanVars, linkVars>>

CallCrawl ==
    \E b \in BaseUrls, d \in 0..MaxDepthArg, f \in Formats :
        /\ FreshCall
        /\ api' = "crawl"
        /\ UNCHANGED prev
        /\ base_url' = b
        /\ max_depth' = d
        /\ format_type' = f
        /\ EnterCrawl(b)

\* extract(base_url, output_format, max_depth=d) up to its call of crawl
CallExtract ==
    \E b \in BaseUrls, d \in 0..MaxDepthArg :
        /\ FreshCall
        /\ api' = "extract"
        /\ UNCHANGED prev
        /\ base_url' = b
        /\ max_depth' = d
        /\ format_type' = "markdown"
        /\ EnterCrawl(b)

\* while queue: url, depth = queue.popleft(); the entry is skipped
DequeueSkip ==
    /\ pc = "loop"
    /\ queue # <<>>
    /\ Skip(Head(queue)[1], Head(queue)[2])
    /\ queue' = PopLeft(queue)
    /\ qhops' = PopLeft(qhops)
    /\ cur' = [url |-> Head(queue)[1], depth |-> Head(queue)[2]]
    /\ UNCHANGED <<site, api, pc, base_url, max_depth, format_type, visited,
                   content_dict, soup, result, raised, trace, hops, failed,
                   skipped, calls, prev, cleanVars, linkVars>>

\* while queue: url, depth = queue.popleft(); visited.add(url)
DequeueVisit ==
    /\ pc = "loop"
    /\ queue # <<>>
    /\ ~Skip(Head(queue)[1], Head(queue)[2])
    /\ queue' = PopLeft(queue)
    /\ qhops' = PopLeft(qhops)
    /\ cur' = [url |-> Head(queue)[1], depth |-> Head(queue)[2]]
    /\ visited' = VisitedAdd(visited, Head(queue)[1])
    /\ hops' = hops @@ (Head(queue)[1] :> Head(qhops))
    /\ pc' = "get"
    /\ UNCHANGED <<site, api, base_url, max_depth, format_type, content_dict,
                   soup, result, raised, trace, failed, skipped, calls, prev,
                   cleanVars, linkVars>>

\* response = requests.get(url, ...); response.raise_for_status(); the
\* content type check; soup = BeautifulSoup(response.text, "html.parser")
CrawlGet ==
    /\ pc = "get"
    /\ trace' = Append(trace, Get(cur.url))
    /\ \E r \in Responses(cur.url) :
          IF r = "error"
          THEN /\ Caught(cur.url)
               /\ UNCHANGED <<soup, skipped>>
          ELSE IF ~IsHtml(r)
          THEN \* continue
               /\ skipped' = skipped \cup {cur.url}
               /\ pc' = "loop"
               /\ UNCHANGED <<soup, failed, raised>>
          ELSE /\ soup' = site[cur.url].anchors
               /\ pc' = "scrape"
               /\ UNCHANGED <<failed, skipped, raised>>
    /\ UNCHANGED <<site, api, base_url, max_depth, format_type, queue, visited,
                   content_dict, cur, result, qhops, hops, calls, prev,
                   cleanVars, linkVars>>

\* The links of the page are appended to the queue before scrape is called.
CrawlScrapeLinksFirst ==
    /\ pc = "scrape"
    /\ \E o \in Scrape(cur.url) :
          LET new == IF FollowLinks(cur.depth)
                     THEN NewLinks(PageLinks[<<soup, cur.url>>])
                     ELSE <<>>
          IN  /\ trace' = trace \o (IF o.requested THEN <<Get(cur.url)>> ELSE <<>>)
                                \o (IF o.exc = "none" THEN <<Sleep>> ELSE <<>>)
              /\ queue' = AppendAll(queue, [i \in 1..Len(new) |->
                                       <<new[i], ChildDepth(cur.depth)>>])
              /\ qhops' = AppendAll(qhops, [i \in 1..Len(new) |->
                                       hops[cur.url] + 1])
              /\ IF o.exc # "none"
                 THEN /\ Caught(cur.url)
                      /\ UNCHANGED content_dict
                 ELSE /\ content_dict' = DictSet(content_dict, cur.url, o.value)
                      /\ pc' = "loop"
                      /\ UNCHANGED <<failed, raised>>
    /\ UNCHANGED <<site, api, base_url, max_depth, format_type, visited, cur,
                   soup, result, hops, skipped, calls, prev, cleanVars,
                   linkVars>>

\* content_dict[url] = self.scrape(url); the links are appended to the
\* queue; time.sleep(self.delay)
CrawlScrape ==
    /\ pc = "scrape"
    /\ \E o \in Scrape(cur.url) :
          /\ trace' = trace \o (IF o.requested THEN <<Get(cur.url)>> ELSE <<>>)
                            \o (IF o.exc = "none" THEN <<Sleep>> ELSE <<>>)
          /\ IF o.exc # "none"
             THEN /\ Caught(cur.url)
                  /\ UNCHANGED <<content_dict, queue, qhops>>
             ELSE LET new == IF FollowLinks(cur.depth)
                             THEN NewLinks(PageLinks[<<soup, cur.url>>])
                             ELSE <<>>
                  IN  /\ content_dict' = DictSet(content_dict, cur.url, o.value)
                      /\ queue' = AppendAll(queue, [i \in 1..Len(new) |->
                                               <<new[i], ChildDepth(cur.depth)>>])
                      /\ qhops' = AppendAll(qhops, [i \in 1..Len(new) |->
                                               hops[cur.url] + 1])
                      /\ pc' = "loop"
                      /\ UNCHANGED <<failed, raised>>
    /\ UNCHANGED <<site, api, base_url, max_depth, format_type, visited, cur,
                   soup, result, hops, skipped, calls, prev, cleanVars,
                   linkVars>>

\* the queue is empty: crawl builds its return value
CrawlReturn ==
    /\ pc = "loop"
    /\ queue = <<>>
    /\ result' = IF format_type = "markdown" THEN JoinMarkdown(content_dict)
                 ELSE content_dict
    /\ pc' = IF api = "extract" THEN "check" ELSE "done"
    /\ UNCHANGED <<site, api, base_url, max_depth, format_type, queue, visited,
                   content_dict, cur, soup, raised, trace, qhops, hops, failed,
                   skipped, calls, prev, cleanVars, linkVars>>

\* extract after crawl returned: the emptiness check, then the completion
\* request and the parse of its answer into output_format
ExtractFinish ==
    /\ pc = "check"
    /\ IF IsEmptyContent(result)
       THEN /\ raised' = "ValueError"
            /\ pc' = "raised"
            /\ UNCHANGED <<trace, result>>
       ELSE /\ trace' = Append(trace, Completion)
            /\ \/ /\ result' = <<"output_format">>
                  /\ pc' = "done"
                  /\ UNCHANGED raised
               \/ /\ raised' = "CompletionError"
                  /\ pc' = "raised"
                  /\ UNCHANGED result
    /\ UNCHANGED <<site, api, base_url, max_depth, format_type, queue, visited,
                   content_dict, cur, soup, qhops, hops, failed, skipped, calls, prev,
                   cleanVars, linkVars>>

\* scrape(url) called by the user
CallScrape ==
    \E u \in BaseUrls :
        /\ FreshCall
        /\ api' = "scrape"
        /\ UNCHANGED prev
        /\ base_url' = u
        /\ UNCHANGED <<max_depth, format_type>>
        /\ queue' = <<>>
        /\ qhops' = <<>>
        /\ raised' = "none"
        /\ pc' = "run"

ScrapeRun ==
    /\ pc = "run"
    /\ \E o \in Scrape(base_url) :
          /\ trace' = IF o.requested THEN Append(trace, Get(base_url)) ELSE trace
          /\ raised' = o.exc
          /\ result' = o.value
          /\ pc' = IF o.exc = "none" THEN "done" ELSE "raised"
    /\ UNCHANGED <<site, api, base_url, max_depth, format_type, queue, visited,
                   content_dict, cur, soup, qhops, hops, failed, skipped, calls, prev,
                   cleanVars, linkVars>>

CrawlStep ==
    \/ DequeueSkip
    \/ DequeueVisit
    \/ CrawlGet
    \/ CrawlScrape
    \/ CrawlReturn

\* what a finished call leaves to compare the next one with
NoCall == [result |-> <<>>, raised |-> "none", trace |-> <<>>, failed |-> {},
           skipped |-> {}]

InitIdle ==
    /\ calls = 0
    /\ api = "none"
    /\ pc = "idle"
    /\ base_url = NoScheme
    /\ max_depth = 0
    /\ format_type = "markdown"
    /\ queue = <<>>
    /\ visited = {}
    /\ content_dict = <<>>
    /\ cur = NoEntry
    /\ soup = <<>>
    /\ result = <<>>
    /\ raised = "none"
    /\ trace = <<>>
    /\ qhops = <<>>
    /\ hops = <<>>
    /\ failed = {}
    /\ skipped = {}
    /\ prev = NoCall

Init ==
    /\ site \in Sites
    /\ InitIdle
    /\ markdown = <<>>
    /\ cleaned = <<>>
    /\ link_in = [base |-> Root, anchors |-> <<>>]
    /\ links = <<>>

Next ==
    \/ CallCrawl
    \/ CallExtract
    \/ CallScrape
    \/ DequeueSkip
    \/ DequeueVisit
    \/ CrawlGet
    \/ CrawlScrape
    \/ CrawlReturn
    \/ ExtractFinish
    \/ ScrapeRun

Spec == Init /\ [][Next]_vars

\* The loop of crawl, extract's tail and scrape run to completion: the
\* program is sequential and every request has a timeout.
FairSpec == Spec /\ WF_vars(CrawlStep) /\ WF_vars(ExtractFinish) /\ WF_vars(ScrapeRun)

-----------------------------------------------------------------------------
(* crawl called twice on the same Paw instance with the same arguments *)

\* the first call of crawl
FirstCrawl ==
    /\ calls = 0
    /\ CallCrawl

\* crawl(base_url, max_depth, format_type) called again after it returned
RepeatCrawl ==
    /\ calls > 0
    /\ api = "crawl"
    /\ FreshCall
    /\ UNCHANGED <<api, base_url, max_depth, format_type>>
    /\ EnterCrawl(base_url)
    /\ prev' = [result |-> result, raised |-> raised, trace |-> trace,
                failed |-> failed, skipped |-> skipped]

NextTwice ==
    \/ FirstCrawl
    \/ RepeatCrawl
    \/ DequeueSkip
    \/ DequeueVisit
    \/ CrawlGet
    \/ CrawlScrape
    \/ CrawlReturn

SpecTwice == Init /\ [][NextTwice]_vars

-----------------------------------------------------------------------------
(* _clean_markdown on every short text *)

TextAlphabet == {"a", SP, NL}

InitClean ==
    /\ site = SiteAbout
    /\ InitIdle
    /\ markdown \in SeqsUpTo(TextAlphabet, MaxTextLen)
    /\ cleaned = <<>>
    /\ link_in = [base |-> Root, anchors |-> <<>>]
    /\ links = <<>>

\* markdown = self._clean_markdown(markdown)
CleanOnce ==
    /\ cleaned = <<>>
    /\ cleaned' = <<CleanMarkdown(markdown)>>
    /\ UNCHANGED <<site, crawlVars, markdown, linkVars>>

\* _clean_markdown applied to its own result
CleanAgain ==
    /\ Len(cleaned) = 1
    /\ cleaned' = Append(cleaned, CleanMarkdown(cleaned[1]))
    /\ UNCHANGED <<site, crawlVars, markdown, linkVars>>

NextClean ==
    \/ CleanOnce
    \/ CleanAgain

SpecClean == InitClean /\ [][NextClean]_vars

-----------------------------------------------------------------------------
(* _extract_links on every pair of short host names *)

HostAlphabet == {"a", "w", "."}

Hosts == SeqsUpTo(HostAlphabet, MaxHostLen)

AnchorShapes ==
    {<<RelHref("/x"), FragHref, EmptyHref>>,
     <<Href("", <<>>, "", TRUE, FALSE), Href("", <<"a">>, "/y", FALSE, TRUE)>>,
     <<AbsHref(FtpRoot), AbsHref(Root), Href("https", HostWS, "/z", TRUE, TRUE)>>}

InitLinks ==
    /\ site = SiteAbout
    /\ InitIdle
    /\ markdown = <<>>
    /\ cleaned = <<>>
    /\ \/ \E hb \in Hosts, hl \in Hosts :
             link_in = [base |-> Url("https", hb, "/"),
                        anchors |-> <<AbsHref(Url("https", hl, "/x"))>>]
       \/ \E b \in {Root, WRoot, Url("http", <<"a">>, "/")}, a \in AnchorShapes :
             link_in = [base |-> b, anchors |-> a]
    /\ links = <<>>

\* links = self._extract_links(soup, url)
RunExtractLinks ==
    /\ links = <<>>
    /\ links' = <<ExtractLinks(link_in.anchors, link_in.base)>>
    /\ UNCHANGED <<site, crawlVars, cleanVars, link_in>>

NextLinks == RunExtractLinks

SpecLinks == InitLinks /\ [][NextLinks]_vars

-----------------------------------------------------------------------------
(* Properties *)

InCrawl == api \in {"crawl", "extract"}
CrawlRunning == pc \in {"loop", "get", "scrape"}

\* number of requests for url recorded in a trace
RECURSIVE Requests(_, _)
Requests(t, url) ==
    IF t = <<>> THEN 0
    ELSE (IF Head(t) = Get(url) THEN 1 ELSE 0) + Requests(Tail(t), url)

\* C1: every URL with an entry in the result was dequeued and processed
\* after following at most max_depth links from base_url (0 for base_url,
\* one more than its parent for a link).
C1_DepthBounded ==
    InCrawl =>
        \A u \in Keys(content_dict) :
            /\ u \in visited
            /\ u \in DOMAIN hops
            /\ hops[u] <= max_depth
            /\ (hops[u] = 0 => u = base_url)

C1_Witness ==
    /\ api = "crawl"
    /\ pc = "done"
    /\ max_depth = 2
    /\ site = SiteDiamond
    /\ \E u \in Keys(content_dict) : hops[u] = 2
    /\ Far \notin visited

\* C2: within one crawl call no URL is requested more than once.
C2_FetchedAtMostOnce ==
    InCrawl => \A i \in 1..Len(trace) : Requests(trace, trace[i].url) <= 1

\* C3: the crawl loop always ends with the queue empty, and two HTML pages
\* that link to each other, crawled with max_depth = 3 and no failed request,
\* give exactly two entries.
CycleCrawled ==
    /\ site = SiteCycle
    /\ api = "crawl"
    /\ base_url = Root
    /\ max_depth = 3
    /\ pc = "done"
    /\ failed = {}

C3_Terminates ==
    /\ CrawlRunning ~> (pc \in {"done", "check"} /\ queue = <<>>)
    /\ [](CycleCrawled => Len(content_dict) = 2 /\ Keys(content_dict) = {Root, About})

C3_Witness == CycleCrawled /\ queue = <<>> /\ Len(trace) > 2

\* the host with only a leading "www." removed
Registrable(host) ==
    IF StartsWithAt(host, WWW, 1) THEN SubSeq(host, 5, Len(host)) ELSE host

\* C4: every URL returned by link extraction has the registrable domain of
\* the base URL.
C4_SameRegistrableDomain ==
    links # <<>> =>
        \A i \in 1..Len(links[1]) :
            Registrable(links[1][i].host) = Registrable(link_in.base.host)

\* C5: normalize(normalize(x)) = normalize(x).
C5_Idempotent == Len(cleaned) = 2 => cleaned[2] = cleaned[1]

\* C6: a URL whose response is not HTML has no entry in the result, is
\* marked visited, and crawl raises nothing; when it is base_url the result
\* is empty.
C6_NonHtmlSkipped ==
    InCrawl =>
        /\ \A u \in skipped : u \in visited /\ u \notin Keys(content_dict)
        /\ \A u \in DOMAIN site :
              site[u].content_type # HTML => u \notin Keys(content_dict)
        /\ (skipped # {} /\ api = "crawl" => raised = "none")
        /\ (base_url \in skipped /\ api = "crawl" /\ pc = "done" =>
               content_dict = <<>> /\ result = <<>>)

C6_Witness ==
    /\ api = "crawl"
    /\ pc = "done"
    /\ base_url \in skipped
    /\ trace = <<Get(base_url)>>

C8_DelayBetweenEntries ==
    InCrawl =>
        \A i, j \in 1..Len(trace) :
            (/\ i < j
             /\ trace[i].op = "get"
             /\ trace[j].op = "get"
             /\ trace[i].url # trace[j].url)
            => \E k \in (i + 1)..(j - 1) : trace[k] = Sleep

\* every character of md is whitespace
Blank(md) == \A i \in 1..Len(md) : md[i] \in {SP, NL}

\* C9: when the markdown crawl returned is empty or all whitespace, extract
\* raises the empty-content ValueError and makes no completion request.
C9_EmptyContent ==
    [][api = "extract" /\ pc = "check" /\ Blank(result) =>
          /\ pc' = "raised"
          /\ raised' = "ValueError"
          /\ trace' = trace
          /\ \A i \in 1..Len(trace') : trace'[i] # Completion]_vars

C9_Witness ==
    /\ api = "extract"
    /\ pc = "raised"
    /\ raised = "ValueError"
    /\ ValidUrl(base_url)
    /\ visited # {}
    /\ Blank(result)

\* C10: crawl, extract and scrape given a URL that starts with neither
\* "http://" nor "https://" raise ValueError with no request made and no
\* queue, visited set or result.
BadScheme(url) == url.scheme \notin {"http", "https"}

C10_InvalidInput ==
    api # "none" /\ BadScheme(base_url) =>
        /\ trace = <<>>
        /\ queue = <<>>
        /\ visited = {}
        /\ content_dict = <<>>
        /\ result = <<>>
        /\ \/ pc = "raised" /\ raised = "ValueError"
           \/ api = "scrape" /\ pc = "run"

C10_Witness ==
    /\ api = "crawl"
    /\ pc = "raised"
    /\ raised = "ValueError"
    /\ base_url = FtpRoot

\* the URLs of the entries of a queue, and of the requests of a trace
QueueUrls(q) == {q[i][1] : i \in 1..Len(q)}
Requested(t) == {t[i].url : i \in {k \in 1..Len(t) : t[k].op = "get"}}

\* C11: crawling / with max_depth = 1, where / links to /about and to
\* another domain and both pages are HTML, visits exactly / and /about; the
\* external URL is never queued, requested or stored.
AboutScenario ==
    /\ site = SiteAbout
    /\ api = "crawl"
    /\ base_url = Root
    /\ max_depth = 1

C11_ExternalExcluded ==
    AboutScenario =>
        /\ Ext \notin QueueUrls(queue)
        /\ Ext \notin Requested(trace)
        /\ Ext \notin visited
        /\ Ext \notin Keys(content_dict)
        /\ (pc = "done" /\ failed = {} =>
               /\ visited = {Root, About}
               /\ Keys(content_dict) = {Root, About}
               /\ Requested(trace) = {Root, About})

C11_Witness == AboutScenario /\ pc = "done" /\ failed = {} /\ Len(content_dict) = 2

\* C12: no link is queued from a page processed at depth max_depth; with
\* max_depth = 0 only base_url is ever queued or requested and the result
\* holds at most the entry of base_url.
C12_NoLinksAtMaxDepth ==
    /\ [][InCrawl /\ pc = "scrape" /\ cur.depth >= max_depth => queue' = queue]_vars
    /\ [](InCrawl /\ max_depth = 0 =>
             /\ QueueUrls(queue) \subseteq {base_url}
             /\ Requested(trace) \subseteq {base_url}
             /\ Keys(content_dict) \subseteq {base_url}
             /\ Len(content_dict) <= 1)

C12_Witness ==
    /\ api = "crawl"
    /\ max_depth = 0
    /\ pc = "done"
    /\ site = SiteDiamond
    /\ Keys(content_dict) = {base_url}
    /\ queue = <<>>

\* the URLs requested in a trace, each once, in the order of their first request
RECURSIVE VisitOrder(_, _)
VisitOrder(t, seen) ==
    IF t = <<>> THEN <<>>
    ELSE IF Head(t).op = "get" /\ Head(t).url \notin seen
    THEN <<Head(t).url>> \o VisitOrder(Tail(t), seen \cup {Head(t).url})
    ELSE VisitOrder(Tail(t), seen)

RECURSIVE Without(_, _)
Without(us, S) ==
    IF us = <<>> THEN <<>>
    ELSE IF Head(us) \in S THEN Without(Tail(us), S)
    ELSE <<Head(us)>> \o Without(Tail(us), S)

\* one section per URL of us, in that order
RECURSIVE Document(_)
Document(us) ==
    IF us = <<>> THEN <<>>
    ELSE <<"URL: ">> \o UrlStr(Head(us)) \o <<NL, NL>>
         \o CleanMarkdown(site[Head(us)].text)
         \o (IF Len(us) = 1 THEN <<>>
             ELSE <<NL, NL, "---", NL, NL>> \o Document(Tail(us)))

Stores == InCrawl /\ pc = "scrape" /\ Len(content_dict') > Len(content_dict)

\* the links of the page being processed, each with the depth of its entry
Entries(ls) == [i \in 1..Len(ls) |-> <<ls[i], cur.depth + 1>>]

C15_ProcessedAtMostOnce ==
    /\ [][InCrawl /\ pc = "loop" /\ pc' = "get" =>
             /\ cur'.url = Head(queue)[1]
             /\ cur'.url \notin visited
             /\ cur'.url \in visited']_vars
    /\ [][CrawlRunning /\ CrawlRunning' => visited \subseteq visited']_vars
    /\ [][InCrawl /\ pc = "loop" /\ queue # <<>> /\ Head(queue)[1] \in visited =>
             /\ pc' = "loop"
             /\ queue' = Tail(queue)
             /\ trace' = trace
             /\ visited' = visited
             /\ content_dict' = content_dict]_vars

\* a second entry of a stored URL has just been dropped
C15_Witness ==
    /\ InCrawl
    /\ pc = "loop"
    /\ cur.url \in Keys(content_dict)
    /\ cur.depth <= max_depth
    /\ cur.depth # hops[cur.url]
    /\ Requests(trace, cur.url) = 2

\* C16: whenever the crawl requests a URL, the URL is already in the visited
\* set; a URL whose processing failed is not requested again in that crawl.
C16_VisitedBeforeFetch ==
    [][InCrawl /\ Len(trace') > Len(trace) =>
          \A i \in (Len(trace) + 1)..Len(trace') :
              trace'[i].op = "get" =>
                  /\ trace'[i].url \in visited
                  /\ trace'[i].url \notin failed]_vars

\* the first request of /about failed, and a second entry of /about was
\* dropped later without a request
C16_Witness ==
    /\ site = SiteMixed
    /\ api = "crawl"
    /\ base_url = WRoot
    /\ pc = "done"
    /\ About \in failed
    /\ Requests(trace, About) = 1
    /\ Root \in Keys(content_dict)

\* C17: entries leave the queue at its head and enter at its tail, the
\* depths of the entries dequeued one after the other never decrease, and
\* the depths in the queue are sorted from head to tail and at most 1 apart.
QueueSorted ==
    \A i, j \in 1..Len(queue) :
        i <= j => queue[i][2] <= queue[j][2] /\ queue[j][2] <= queue[i][2] + 1

C17_BreadthFirst ==
    /\ [](InCrawl => QueueSorted)
    /\ [](InCrawl /\ CrawlRunning /\ queue # <<>> =>
             cur.depth <= Head(queue)[2] /\ queue[Len(queue)][2] <= cur.depth + 1)
    /\ [][CrawlRunning /\ CrawlRunning' =>
             /\ cur'.depth >= cur.depth
             /\ \/ queue' = queue
                \/ /\ queue # <<>>
                   /\ queue' = Tail(queue)
                   /\ cur' = [url |-> Head(queue)[1], depth |-> Head(queue)[2]]
                \/ Len(queue') > Len(queue) /\ SubSeq(queue', 1, Len(queue)) = queue]_vars

C17_Witness ==
    /\ InCrawl
    /\ Len(queue) >= 3
    /\ queue[1][2] = 1
    /\ queue[Len(queue)][2] = 2

\* C18: every crawl call starts with the queue holding only (base_url, 0),
\* an empty visited set and an empty result; when crawl is called again with
\* the same arguments on the same site and every URL requested in both calls
\* is answered the same way, the second call ends as the first did, returns
\* an equal result and issues the same requests in the same order.
Fate(t, f, sk, u) == <<u \in f, u \in sk, Requests(t, u)>>

SameAnswers ==
    \A u \in Requested(trace) \cap Requested(prev.trace) :
        Fate(trace, failed, skipped, u) = Fate(prev.trace, prev.failed, prev.skipped, u)

C18_NoStateAcrossCalls ==
    /\ [][calls' = calls + 1 /\ api' = "crawl" /\ pc' = "loop" =>
             /\ queue' = <<<<base_url', 0>>>>
             /\ visited' = {}
             /\ content_dict' = <<>>
             /\ result' = <<>>]_vars
    /\ [](calls >= 2 /\ pc \in {"done", "raised"} /\ SameAnswers =>
             /\ result = prev.result
             /\ raised = prev.raised
             /\ trace = prev.trace)

\* the second of two crawls that stored, skipped or lost the same pages
C18_Witness ==
    /\ calls = 2
    /\ pc = "done"
    /\ SameAnswers
    /\ Len(content_dict) >= 2
    /\ failed # {}
    /\ Len(prev.trace) >= 4
    /\ trace = prev.trace

\* C19: when crawl has returned, every same-domain URL that a chain of at
\* most max_depth links through stored pages leads to from base_url has been
\* processed, and it is in the result unless its own processing failed or
\* its response was not HTML.
LinkedFrom(p) ==
    {JoinAndStrip(p, site[p].anchors[i]) :
        i \in {k \in 1..Len(site[p].anchors) :
                 /\ ~HrefIsEmpty(site[p].anchors[k])
                 /\ ~HrefIsFragment(site[p].anchors[k])
                 /\ Registrable(JoinAndStrip(p, site[p].anchors[k]).host)
                        = Registrable(base_url.host)}}

RECURSIVE Reach(_)
Reach(k) ==
    IF k = 0 THEN {base_url}
    ELSE LET R == Reach(k - 1)
         IN  R \cup UNION {LinkedFrom(p) : p \in R \cap Keys(content_dict)}

C19_TraversalComplete ==
    api = "crawl" /\ pc = "done" =>
        \A u \in Reach(max_depth) :
            /\ u \in visited
            /\ u \notin failed \cup skipped => u \in Keys(content_dict)

\* the diamond crawled to depth 2: four URLs within reach, the fifth is not
C19_Witness ==
    /\ api = "crawl"
    /\ pc = "done"
    /\ site = SiteDiamond
    /\ base_url = Root
    /\ max_depth = 2
    /\ Reach(max_depth) = {Root, About, WRoot, Deep}
    /\ Keys(content_dict) = {Root, About, WRoot, Deep}
    /\ Far \notin visited

\* C20: every queue entry of depth > 0 is a link extracted from a page that
\* has an entry in content_dict, one level above it; a page whose processing
\* fails in scrape, after its first request succeeded, stores nothing and
\* adds nothing to the queue.
ExtractedFrom(p) ==
    {PageLinks[<<site[p].anchors, p>>][i] :
        i \in 1..Len(PageLinks[<<site[p].anchors, p>>])}

C20_LinksOnlyFromStored ==
    /\ [](InCrawl =>
             \A i \in 1..Len(queue) :
                 queue[i][2] > 0 =>
                     \E p \in Keys(content_dict) :
                         /\ queue[i][1] \in ExtractedFrom(p)
                         /\ qhops[i] = hops[p] + 1)
    /\ [][InCrawl /\ pc = "scrape" /\ failed' # failed =>
             /\ queue' = queue
             /\ content_dict' = content_dict
             /\ cur.url \notin Keys(content_dict')]_vars

\* /about was fetched, its conversion failed, and the queue still holds a
\* link of the start page
C20_Witness ==
    /\ InCrawl
    /\ pc = "loop"
    /\ cur.url \in failed
    /\ Requests(trace, cur.url) = 2
    /\ cur.depth < max_depth
    /\ cur.url \in DOMAIN site
    /\ ExtractedFrom(cur.url) \ visited # {}
    /\ queue # <<>>
    /\ Head(queue)[2] > 0

====
